---- MODULE Spec2Model ----
(***************************************************************************)
(* Keystroke-biometrics pipeline: the feature extractor                    *)
(* (utils/features.py), the template builder and scorer                    *)
(* (utils/authentication.py) and the keystroke collector                   *)
(* (utils/collector.py).                                                   *)
(*                                                                         *)
(* Numbers.  A cell of a table or a returned statistic is a record         *)
(*   [k, n, d]:  k = "num"  the rational n/d (d > 0, lowest terms)         *)
(*               k = "nan"  the float NaN (a missing csv cell)             *)
(*               k = "str"  a non-numeric csv cell (object dtype)          *)
(*               k = "sqrt" the square root of the rational n/d            *)
(* so that a mean or a standard deviation is computed exactly.             *)
(***************************************************************************)
EXTENDS Integers, Sequences, FiniteSets, TLC

VARIABLES
    df, feats, pc,                       \* utils/features.py: one session's run
    sessions, templates,                 \* utils/authentication.py: main()
    genuine_scores, impostor_scores, apc,
    clock, press_times, keystrokes,      \* utils/collector.py: one recording
    order_index, cpc, csv,
    files, run_pc, run_condition,        \* utils/collector.py: several runs of
    run_session_id, run_recorded         \* the script over one data/raw

featVars == <<df, feats, pc>>
authVars == <<sessions, templates, genuine_scores, impostor_scores, apc>>
collVars == <<clock, press_times, keystrokes, order_index, cpc, csv>>
runVars == <<files, run_pc, run_condition, run_session_id, run_recorded>>
vars == <<featVars, authVars, collVars, runVars>>

\* ----------------------------------------------------------------- bounds
MaxEvents == 3
MaxT == 1
MaxSessions == 3
NumParticipants == 2
MaxVal == 2
MaxClock == 3
MaxKeystrokes == 3
NumRuns == 3

\* ---------------------------------------------------------------- numbers
MsPerSecond == 1000

NaN == [k |-> "nan", n |-> 0, d |-> 1]
Str == [k |-> "str", n |-> 0, d |-> 1]
Num(x) == [k |-> "num", n |-> x, d |-> 1]

IsNum(v) == v.k = "num"
IsNaN(v) == v.k = "nan"

Abs(x) == IF x < 0 THEN -x ELSE x

RECURSIVE GCD(_, _)
GCD(a, b) == IF b = 0 THEN a ELSE GCD(b, a % b)

\* the rational a/b (b # 0) in lowest terms with a positive denominator
Rat(a, b) ==
    LET g == GCD(Abs(a), Abs(b))
        s == IF b < 0 THEN -1 ELSE 1
    IN  [k |-> "num", n |-> (s * a) \div g, d |-> (s * b) \div g]

\* the square root of the rational a/b (a >= 0, b > 0)
Sqrt(a, b) ==
    LET g == GCD(Abs(a), Abs(b))
    IN  [k |-> "sqrt", n |-> a \div g, d |-> b \div g]

\* float subtraction of two integer-valued cells: NaN if either is NaN
Sub(a, b) == IF IsNum(a) /\ IsNum(b) THEN Num(a.n - b.n) ELSE NaN

RECURSIVE SeqSum(_)
SeqSum(s) == IF s = <<>> THEN 0 ELSE Head(s).n + SeqSum(Tail(s))

RECURSIVE SeqSumSq(_)
SeqSumSq(s) == IF s = <<>> THEN 0 ELSE Head(s).n * Head(s).n + SeqSumSq(Tail(s))

RECURSIVE SeqMax(_)
SeqMax(s) ==
    IF Len(s) = 1 THEN Head(s).n
    ELSE LET m == SeqMax(Tail(s)) IN IF Head(s).n >= m THEN Head(s).n ELSE m

RECURSIVE SeqMin(_)
SeqMin(s) ==
    IF Len(s) = 1 THEN Head(s).n
    ELSE LET m == SeqMin(Tail(s)) IN IF Head(s).n <= m THEN Head(s).n ELSE m

\* pandas reductions skip NaN (skipna=True is the default)
NotNa(s) == SelectSeq(s, IsNum)

\* Series.mean(): NaN for no valid value
SeriesMean(s) ==
    LET v == NotNa(s)
    IN  IF v = <<>> THEN NaN ELSE Rat(SeqSum(v), Len(v))

\* Series.std(): ddof=1, NaN for fewer than 2 valid values
\* variance = (c * sum(x^2) - sum(x)^2) / (c * (c - 1))
SeriesStd(s) ==
    LET v == NotNa(s)
        c == Len(v)
    IN  IF c < 2 THEN NaN
        ELSE Sqrt(c * SeqSumSq(v) - SeqSum(v) * SeqSum(v), c * (c - 1))

SeriesMax(s) == LET v == NotNa(s) IN IF v = <<>> THEN NaN ELSE Num(SeqMax(v))
SeriesMin(s) == LET v == NotNa(s) IN IF v = <<>> THEN NaN ELSE Num(SeqMin(v))

Column(d, c) == [i \in 1..Len(d) |-> d[i][c]]

\* ------------------------------------------------------- compute_features
RECURSIVE InsertByOrder(_, _)
InsertByOrder(r, s) ==
    IF s = <<>> THEN <<r>>
    ELSE IF r.order_index <= Head(s).order_index THEN <<r>> \o s
    ELSE <<Head(s)>> \o InsertByOrder(r, Tail(s))

RECURSIVE SortedByOrder(_)
SortedByOrder(d) ==
    IF d = <<>> THEN <<>> ELSE InsertByOrder(Head(d), SortedByOrder(Tail(d)))

\* a plausible slip: the rows are taken in file order
unsorted_values(d) == d

\* df.sort_values("order_index"): a new table, rows ascending by order_index
sort_values(d) == SortedByOrder(d)

\* a non-numeric cell makes the column object dtype; str - x raises TypeError
RaisesTypeError(d) ==
    \E i \in 1..Len(d) : d[i].t_down_ms.k = "str" \/ d[i].t_up_ms.k = "str"

\* df["hold_time"], df["next_t_down"] (shift(-1)), df["flight_time"]
WithColumns(d) ==
    [i \in 1..Len(d) |->
        LET next == IF i < Len(d) THEN d[i + 1].t_down_ms ELSE NaN
        IN  [order_index |-> d[i].order_index,
             t_down_ms   |-> d[i].t_down_ms,
             t_up_ms     |-> d[i].t_up_ms,
             hold_time   |-> Sub(d[i].t_up_ms, d[i].t_down_ms),
             next_t_down |-> next,
             flight_time |-> Sub(next, d[i].t_up_ms)]]

HasFlight(r) == IsNum(r.flight_time)

\* df.dropna(subset=["flight_time"])
dropna(d) == SelectSeq(d, HasFlight)

\* a plausible slip: zeros instead of NaN for a degenerate session
ZeroFeatures ==
    [raised |-> "none", mean_hold |-> Num(0), std_hold |-> Num(0),
     mean_flight |-> Num(0), std_flight |-> Num(0), typing_speed |-> Num(0)]

\* the dictionary returned when len(df) < 2
NanFeatures ==
    [raised |-> "none", mean_hold |-> NaN, std_hold |-> NaN,
     mean_flight |-> NaN, std_flight |-> NaN, typing_speed |-> NaN]

\* the call does not return: line 48 raised
TypeErrorRaised ==
    [raised |-> "TypeError", mean_hold |-> NaN, std_hold |-> NaN,
     mean_flight |-> NaN, std_flight |-> NaN, typing_speed |-> NaN]

\* duration_ms = df["t_up_ms"].max() - df["t_down_ms"].min()
duration_ms(d) == Sub(SeriesMax(Column(d, "t_up_ms")), SeriesMin(Column(d, "t_down_ms")))

\* NaN <= 0 is False, and len / (NaN / 1000) is NaN
typing_speed(d) ==
    LET dur == duration_ms(d)
    IN  IF IsNaN(dur) THEN NaN
        ELSE IF dur.n <= 0 THEN NaN
        ELSE Rat(Len(d) * MsPerSecond, dur.n)

compute_features(input) ==
    IF RaisesTypeError(input) THEN TypeErrorRaised
    ELSE LET d == dropna(WithColumns(sort_values(input)))
         IN  IF Len(d) < 2 THEN NanFeatures
             ELSE [raised       |-> "none",
                   mean_hold    |-> SeriesMean(Column(d, "hold_time")),
                   std_hold     |-> SeriesStd(Column(d, "hold_time")),
                   mean_flight  |-> SeriesMean(Column(d, "flight_time")),
                   std_flight   |-> SeriesStd(Column(d, "flight_time")),
                   typing_speed |-> typing_speed(d)]

\* ------------------------------------------------- feature extractor runs
NotCalled ==
    [raised |-> "notcalled", mean_hold |-> NaN, std_hold |-> NaN,
     mean_flight |-> NaN, std_flight |-> NaN, typing_speed |-> NaN]

Times == {Num(t) : t \in 0..MaxT}

\* the order_index columns: the collector numbers the rows 0..n-1
OrderColumns(n) ==
    {f \in [1..n -> 0..(n - 1)] : \A i, j \in 1..n : f[i] = f[j] => i = j}

\* the event table with the given order_index, t_down_ms and t_up_ms columns
Table(n, o, dn, up) ==
    [i \in 1..n |-> [order_index |-> o[i], t_down_ms |-> dn[i], t_up_ms |-> up[i]]]

\* the table with one cell replaced by v
WithCell(d, i, c, v) == [d EXCEPT ![i] = [d[i] EXCEPT ![c] = v]]

\* pop(key, None) of a key that is not in the dictionary
None == -1

Keys == {"a", "b", "Key.esc"}

Runs == 1..NumRuns

\* no run of collector.py has been started
RunsIdle ==
    /\ files = {}
    /\ run_pc = [r \in Runs |-> "idle"]
    /\ run_condition = [r \in Runs |-> ""]
    /\ run_session_id = [r \in Runs |-> 0]
    /\ run_recorded = [r \in Runs |-> FALSE]

\* collector.py is not running
CollIdle ==
    /\ clock = 0
    /\ press_times = [k \in Keys |-> None]
    /\ keystrokes = <<>>
    /\ order_index = 0
    /\ cpc = "idle"
    /\ csv = <<>>

\* authentication.py is not running
AuthIdle ==
    /\ sessions = <<>>
    /\ templates = <<>>
    /\ genuine_scores = <<>>
    /\ impostor_scores = <<>>
    /\ apc = "idle"

\* a session file of well-formed rows, in any file order
InitFeatures ==
    /\ \E n \in 0..MaxEvents :
         \E o \in OrderColumns(n), dn \in [1..n -> Times], up \in [1..n -> Times] :
            df = Table(n, o, dn, up)
    /\ feats = NotCalled
    /\ pc = "ready"
    /\ AuthIdle
    /\ CollIdle
    /\ RunsIdle

\* a session file with one malformed row: a missing or non-numeric timestamp
InitMalformed ==
    /\ \E n \in 1..MaxEvents :
         \E o \in OrderColumns(n), dn \in [1..n -> Times], up \in [1..n -> Times] :
            \E i \in 1..n, c \in {"t_down_ms", "t_up_ms"}, v \in {NaN, Str} :
               df = WithCell(Table(n, o, dn, up), i, c, v)
    /\ feats = NotCalled
    /\ pc = "ready"
    /\ AuthIdle
    /\ CollIdle
    /\ RunsIdle

\* feats = compute_features(df): sort_values returns a new table and the added
\* columns are set on it, so the caller's table is left as it was
ComputeFeatures ==
    /\ pc = "ready"
    /\ feats' = compute_features(df)
    /\ pc' = "done"
    /\ df' = df
    /\ UNCHANGED <<authVars, collVars, runVars>>

\* the same session with two neighbouring rows of the file exchanged
PermuteRows ==
    /\ pc \in {"done", "permuted"}
    /\ \E i \in 1..(Len(df) - 1) :
         df' = [df EXCEPT ![i] = df[i + 1], ![i + 1] = df[i]]
    /\ pc' = "permuted"
    /\ feats' = feats
    /\ UNCHANGED <<authVars, collVars, runVars>>

NextFeatures == ComputeFeatures \/ PermuteRows

SpecFeatures == InitFeatures /\ [][NextFeatures]_vars

SpecMalformed == InitMalformed /\ [][NextFeatures]_vars

\* ------------------------------------------------ feature extractor claims
\* the session's event with order_index k, read off the table itself
EventAt(d, k) == CHOOSE r \in {d[i] : i \in 1..Len(d)} : r.order_index = k

HoldAt(d, k) == EventAt(d, k).t_up_ms.n - EventAt(d, k).t_down_ms.n

FlightAt(d, k) == EventAt(d, k + 1).t_down_ms.n - EventAt(d, k).t_up_ms.n

RECURSIVE SumHoldsTo(_, _)
SumHoldsTo(d, k) == IF k < 0 THEN 0 ELSE HoldAt(d, k) + SumHoldsTo(d, k - 1)

RECURSIVE SumFlightsTo(_, _)
SumFlightsTo(d, k) == IF k < 0 THEN 0 ELSE FlightAt(d, k) + SumFlightsTo(d, k - 1)

SessionDuration(d) ==
    LET ups == {d[i].t_up_ms.n : i \in 1..Len(d)}
        dns == {d[i].t_down_ms.n : i \in 1..Len(d)}
    IN  (CHOOSE m \in ups : \A x \in ups : x <= m)
        - (CHOOSE m \in dns : \A x \in dns : m <= x)

\* C1: for a session of n >= 2 events, mean_hold is the mean of the n hold
\* times (the last event included) and mean_flight the mean of the n-1 flight
\* times between events consecutive in order_index order.
C1_MeansOverAllEvents ==
    (pc = "done" /\ Len(df) >= 2) =>
        /\ feats.raised = "none"
        /\ feats.mean_hold = Rat(SumHoldsTo(df, Len(df) - 1), Len(df))
        /\ feats.mean_flight = Rat(SumFlightsTo(df, Len(df) - 2), Len(df) - 1)

\* C2: for a session of n >= 2 events, typing_speed is n / (duration_ms / 1000)
\* with duration_ms = max(t_up_ms) - min(t_down_ms) over all n events, and NaN
\* (no error) when duration_ms <= 0.
C2_TypingSpeedOverAllEvents ==
    (pc = "done" /\ Len(df) >= 2) =>
        /\ feats.raised = "none"
        /\ feats.typing_speed =
              IF SessionDuration(df) <= 0 THEN NaN
              ELSE Rat(Len(df) * MsPerSecond, SessionDuration(df))

\* C3: a session of exactly 2 events is not degenerate: mean_hold is the mean
\* of the two hold times, std_hold is defined, mean_flight is the one flight
\* time, std_flight is NaN and typing_speed is 2 / (duration_ms / 1000) when
\* duration_ms > 0.
C3_TwoEventsNotDegenerate ==
    (pc = "done" /\ Len(df) = 2) =>
        /\ feats.raised = "none"
        /\ feats.mean_hold = Rat(HoldAt(df, 0) + HoldAt(df, 1), 2)
        /\ feats.std_hold.k = "sqrt"
        /\ feats.mean_flight = Num(FlightAt(df, 0))
        /\ feats.std_flight = NaN
        /\ SessionDuration(df) > 0 =>
              feats.typing_speed = Rat(2 * MsPerSecond, SessionDuration(df))

\* C4: for a session of 0 or 1 events all five fields are NaN and no error is
\* raised.
C4_DegenerateAllNaN ==
    (pc # "ready" /\ Len(df) <= 1) =>
        /\ feats.raised = "none"
        /\ IsNaN(feats.mean_hold) /\ IsNaN(feats.std_hold)
        /\ IsNaN(feats.mean_flight) /\ IsNaN(feats.std_flight)
        /\ IsNaN(feats.typing_speed)

C4_Witness == pc = "done" /\ Len(df) = 1 /\ feats.raised = "none"

HasMalformedRow(d) ==
    \E i \in 1..Len(d) : ~IsNum(d[i].t_down_ms) \/ ~IsNum(d[i].t_up_ms)

\* C8: a session whose table holds a malformed row (a missing or non-numeric
\* t_down_ms or t_up_ms) makes compute_features fail with an error; no row is
\* silently left out of the statistics.
C8_MalformedRowFails ==
    (pc = "done" /\ HasMalformedRow(df)) => feats.raised # "none"

\* C9: with unique order_index values, the output computed from any
\* permutation of the rows is the output computed from the original table, and
\* a call leaves the caller's table as it was.
C9_OrderInvariance ==
    /\ [](pc = "permuted" => compute_features(df) = feats)
    /\ [][pc = "ready" => df' = df]_vars

C9_Witness ==
    /\ pc = "permuted"
    /\ Len(df) = 3
    /\ df[1].order_index > df[2].order_index
    /\ IsNum(feats.mean_flight)
    /\ feats.mean_flight # Num(0)

\* ------------------------------------------------------ authentication.py
FEATURE_COLUMNS == <<"mean_hold", "std_hold", "mean_flight", "std_flight", "typing_speed">>

FeatureSet == {FEATURE_COLUMNS[i] : i \in 1..Len(FEATURE_COLUMNS)}

\* the condition whose sessions build the templates
EnrollmentCondition == "Morning"

RatSub(a, b) == Rat(a.n * b.d - b.n * a.d, a.d * b.d)
RatAdd(a, b) == Rat(a.n * b.d + b.n * a.d, a.d * b.d)
RatMul(a, b) == Rat(a.n * b.n, a.d * b.d)

\* df["participant_id"].unique(): the values in order of first appearance
RECURSIVE unique(_, _)
unique(ids, seen) ==
    IF ids = <<>> THEN <<>>
    ELSE IF Head(ids) \in seen THEN unique(Tail(ids), seen)
    ELSE <<Head(ids)>> \o unique(Tail(ids), seen \cup {Head(ids)})

\* df[df["participant_id"] == pid]
RowsOf(d, pid) == LET Same(r) == r.participant_id = pid IN SelectSeq(d, Same)

\* df[df["participant_id"] != pid]
RowsNotOf(d, pid) == LET Other(r) == r.participant_id # pid IN SelectSeq(d, Other)

\* user_df[user_df["condition"] == "Morning"]
MorningRows(d) == LET Morning(r) == r.condition = EnrollmentCondition IN SelectSeq(d, Morning)

\* a plausible slip: the mean with skipna=False, NaN as soon as one value is NaN
ColumnMeanNoSkip(d, c) ==
    IF \E i \in 1..Len(d) : IsNaN(d[i].vec[c]) THEN NaN
    ELSE Rat(SeqSum([i \in 1..Len(d) |-> d[i].vec[c]]), Len(d))

\* one column of morning_df[FEATURE_COLUMNS].mean(): DataFrame.mean() skips NaN
ColumnMean(d, c) == SeriesMean([i \in 1..Len(d) |-> d[i].vec[c]])

\* a plausible slip: the user without a morning session is not skipped
NeverEmpty(d) == FALSE

\* morning_df.empty
IsEmpty(d) == d = <<>>

\* the loop of get_user_templates over the unique participant ids; the dict
\* keeps its keys in insertion order
RECURSIVE TemplatesOver(_, _)
TemplatesOver(d, pids) ==
    IF pids = <<>> THEN <<>>
    ELSE LET pid == Head(pids)
             morning_df == MorningRows(RowsOf(d, pid))
         IN  IF IsEmpty(morning_df) THEN TemplatesOver(d, Tail(pids))
             ELSE <<[participant_id |-> pid,
                     vec |-> [c \in FeatureSet |-> ColumnMean(morning_df, c)]]>>
                  \o TemplatesOver(d, Tail(pids))

get_user_templates(d) ==
    TemplatesOver(d, unique([i \in 1..Len(d) |-> d[i].participant_id], {}))

\* the squared differences of the columns from the k-th on, summed
RECURSIVE SumSqDiff(_, _, _)
SumSqDiff(t, v, k) ==
    IF k > Len(FEATURE_COLUMNS) THEN Num(0)
    ELSE LET x == RatSub(t[FEATURE_COLUMNS[k]], v[FEATURE_COLUMNS[k]])
         IN  RatAdd(RatMul(x, x), SumSqDiff(t, v, k + 1))

\* scipy's euclidean(u, v): NaN if a component of either vector is NaN
euclidean(t, v) ==
    IF \E c \in FeatureSet : IsNaN(t[c]) \/ IsNaN(v[c]) THEN NaN
    ELSE LET s == SumSqDiff(t, v, 1) IN Sqrt(s.n, s.d)

\* a plausible slip: a NaN distance is left out of the list
AppendIfFinite(scores, dist) == IF IsNaN(dist) THEN scores ELSE Append(scores, dist)

\* scores.append(dist)
AppendScore(scores, dist) == Append(scores, dist)

\* one of the two inner loops: a distance per row, appended in row order
RECURSIVE ScoreRows(_, _, _)
ScoreRows(scores, template, rows) ==
    IF rows = <<>> THEN scores
    ELSE ScoreRows(AppendScore(scores, euclidean(template, Head(rows).vec)),
                   template, Tail(rows))

\* the outer loop over templates.items(); the result is <<genuine, impostor>>
RECURSIVE ScoresOver(_, _, _, _)
ScoresOver(d, ts, genuine, impostor) ==
    IF ts = <<>> THEN <<genuine, impostor>>
    ELSE LET pid == Head(ts).participant_id
             template == Head(ts).vec
         IN  ScoresOver(d, Tail(ts),
                        ScoreRows(genuine, template, RowsOf(d, pid)),
                        ScoreRows(impostor, template, RowsNotOf(d, pid)))

compute_scores(d, ts) == ScoresOver(d, ts, <<>>, <<>>)

\* ----------------------------------------------------- authentication runs
Participants == 1..NumParticipants

Conditions == {"Morning", "Fatigue"}

\* the rows of features.csv: a session with every feature defined, or a
\* degenerate session (every feature NaN)
Vec(x) == [c \in FeatureSet |->
             CASE c = "mean_hold"    -> Num(100 * x)
               [] c = "std_hold"     -> Num(100 * x + 1)
               [] c = "mean_flight"  -> Num(100 * x + 2)
               [] c = "std_flight"   -> Num(100 * x + 3)
               [] c = "typing_speed" -> Num(100 * x + 4)]

NanVec == [c \in FeatureSet |-> NaN]

Vectors == {Vec(x) : x \in 1..MaxVal} \cup {NanVec}

FeatIdle ==
    /\ df = <<>>
    /\ feats = NotCalled
    /\ pc = "idle"

\* df = load_features()
InitAuth ==
    /\ \E n \in 0..MaxSessions :
         \E p \in [1..n -> Participants], c \in [1..n -> Conditions], v \in [1..n -> Vectors] :
            sessions = [i \in 1..n |->
                          [participant_id |-> p[i], condition |-> c[i], vec |-> v[i]]]
    /\ templates = <<>>
    /\ genuine_scores = <<>>
    /\ impostor_scores = <<>>
    /\ apc = "loaded"
    /\ FeatIdle
    /\ CollIdle
    /\ RunsIdle

\* templates = get_user_templates(df)
GetUserTemplates ==
    /\ apc = "loaded"
    /\ templates' = get_user_templates(sessions)
    /\ apc' = "templated"
    /\ UNCHANGED <<sessions, genuine_scores, impostor_scores, featVars, collVars, runVars>>

\* genuine_scores, impostor_scores = compute_scores(df, templates)
ComputeScores ==
    /\ apc = "templated"
    /\ \E scores \in {compute_scores(sessions, templates)} :
         /\ genuine_scores' = scores[1]
         /\ impostor_scores' = scores[2]
    /\ apc' = "scored"
    /\ UNCHANGED <<sessions, templates, featVars, collVars, runVars>>

\* the same features.csv with two neighbouring rows exchanged
PermuteSessions ==
    /\ apc \in {"templated", "permuted"}
    /\ \E i \in 1..(Len(sessions) - 1) :
         sessions' = [sessions EXCEPT ![i] = sessions[i + 1], ![i + 1] = sessions[i]]
    /\ apc' = "permuted"
    /\ UNCHANGED <<templates, genuine_scores, impostor_scores, featVars, collVars, runVars>>

NextAuth == GetUserTemplates \/ ComputeScores \/ PermuteSessions

SpecAuth == InitAuth /\ [][NextAuth]_vars

\* --------------------------------------------------- authentication claims
\* the rows of participant p recorded under the enrollment condition
EnrollmentIdx(p) ==
    {i \in 1..Len(sessions) :
        sessions[i].participant_id = p /\ sessions[i].condition = EnrollmentCondition}

\* those of them whose column c holds a number
ValidIdx(p, c) == {i \in EnrollmentIdx(p) : IsNum(sessions[i].vec[c])}

RECURSIVE SumIdx(_, _)
SumIdx(S, c) ==
    IF S = {} THEN 0
    ELSE LET i == CHOOSE x \in S : TRUE IN sessions[i].vec[c].n + SumIdx(S \ {i}, c)

TemplateKeys == {templates[k].participant_id : k \in 1..Len(templates)}

TemplateFor(p) == (CHOOSE k \in 1..Len(templates) : templates[k].participant_id = p)

AsMapping(ts) == {<<ts[k].participant_id, ts[k].vec>> : k \in 1..Len(ts)}

\* C6: the mapping has a key for a participant exactly when the participant
\* has an enrollment session, holds one template per such participant, and is
\* the same mapping for every order of the input rows.
C6_TemplateKeys ==
    /\ apc \in {"templated", "permuted"} =>
          /\ TemplateKeys = {p \in Participants : EnrollmentIdx(p) # {}}
          /\ Len(templates) = Cardinality(TemplateKeys)
    /\ apc = "permuted" => AsMapping(get_user_templates(sessions)) = AsMapping(templates)

C6_Witness ==
    /\ apc = "permuted"
    /\ Len(templates) = 1
    /\ \E i \in 1..Len(sessions) : sessions[i].participant_id \notin TemplateKeys
    /\ \E i, j \in 1..Len(sessions) :
          /\ i < j
          /\ {i, j} \subseteq EnrollmentIdx(templates[1].participant_id)
          /\ IsNum(sessions[i].vec["mean_hold"])
          /\ IsNum(sessions[j].vec["mean_hold"])
          /\ sessions[i].vec["mean_hold"].n > sessions[j].vec["mean_hold"].n

Pairs == (1..Len(templates)) \X (1..Len(sessions))

SamePid(q) == sessions[q[2]].participant_id = templates[q[1]].participant_id

AlwaysTruthy(t) == TRUE

\* if t_press_ms:
Truthy(t) == t # None /\ t # 0

\* the dictionary appended by on_release
Keystroke(key, t_press_ms, t_release_ms) ==
    [key_code |-> key, t_down_ms |-> t_press_ms, t_up_ms |-> t_release_ms,
     order_index |-> order_index]

\* the state at "STEP 10: START KEYBOARD LISTENER"
InitCollector ==
    /\ clock = 1
    /\ press_times = [k \in Keys |-> None]
    /\ keystrokes = <<>>
    /\ order_index = 0
    /\ cpc = "listening"
    /\ csv = <<>>
    /\ FeatIdle
    /\ AuthIdle
    /\ RunsIdle

on_press(key) ==
    /\ cpc = "listening"
    /\ \E t_press_ms \in clock..MaxClock :
         /\ clock' = t_press_ms
         /\ press_times' = [press_times EXCEPT ![key] = t_press_ms]
    /\ UNCHANGED <<keystrokes, order_index, cpc, csv, featVars, authVars, runVars>>

\* (the second conjunct bounds the model: at most MaxKeystrokes are recorded)
on_release(key) ==
    /\ cpc = "listening"
    /\ Truthy(press_times[key]) => Len(keystrokes) < MaxKeystrokes
    /\ \E t_release_ms \in clock..MaxClock :
         LET t_press_ms == press_times[key] IN
         /\ clock' = t_release_ms
         /\ press_times' = [press_times EXCEPT ![key] = None]
         /\ IF Truthy(t_press_ms)
            THEN /\ keystrokes' = Append(keystrokes, Keystroke(key, t_press_ms, t_release_ms))
                 /\ order_index' = order_index + 1
            ELSE UNCHANGED <<keystrokes, order_index>>
    /\ cpc' = IF key = "Key.esc" THEN "stopped" ELSE "listening"
    /\ UNCHANGED <<csv, featVars, authVars, runVars>>

\* save_data(): no file for a recording without keystrokes
save_data ==
    /\ cpc = "stopped"
    /\ csv' = IF Len(keystrokes) = 0 THEN csv ELSE keystrokes
    /\ cpc' = "saved"
    /\ UNCHANGED <<clock, press_times, keystrokes, order_index, featVars, authVars, runVars>>

NextCollector ==
    \/ \E key \in Keys : on_press(key)
    \/ \E key \in Keys : on_release(key)
    \/ save_data

SpecCollector == InitCollector /\ [][NextCollector]_vars

\* --------------------------------------------------------- collector claims
\* C10: after any interleaving of presses and releases under a non-decreasing
\* clock, t_down_ms and t_up_ms are both non-decreasing in order_index order.
C10_TimestampsMonotone ==
    \A i, j \in 1..Len(keystrokes) :
        keystrokes[i].order_index < keystrokes[j].order_index =>
            /\ keystrokes[i].t_down_ms <= keystrokes[j].t_down_ms
            /\ keystrokes[i].t_up_ms <= keystrokes[j].t_up_ms

\* ----------------------------------------- collector.py: runs of the script
\* Several runs of the script for one participant over the same data/raw.  A
\* file of data/raw is its name, {participant_id}_{condition}_S{session_id}.csv,
\* and the run that wrote it; to_csv replaces a file of the same name.
\* existing_sessions: the files named {participant_id}_{condition}_S*.csv
existing_sessions(condition) == {f \in files : f.condition = condition}

\* session_id = len(existing_sessions) + 1
session_id(condition) == Cardinality(existing_sessions(condition)) + 1

\* df.to_csv(filepath): the file of that name is created or replaced
to_csv(run) ==
    {f \in files : ~(f.condition = run_condition[run]
                     /\ f.session_id = run_session_id[run])}
    \cup {[condition |-> run_condition[run],
           session_id |-> run_session_id[run],
           writer |-> run]}

InitRuns ==
    /\ files = {}
    /\ run_pc = [r \in Runs |-> "new"]
    /\ run_condition = [r \in Runs |-> ""]
    /\ run_session_id = [r \in Runs |-> 0]
    /\ run_recorded = [r \in Runs |-> FALSE]
    /\ FeatIdle
    /\ AuthIdle
    /\ CollIdle

\* steps 3 and 4 of the script: the condition is chosen and the session id is
\* computed from the files that exist now
StartRun(run) ==
    /\ run_pc[run] = "new"
    /\ \E condition \in Conditions :
         /\ run_condition' = [run_condition EXCEPT ![run] = condition]
         /\ run_session_id' = [run_session_id EXCEPT ![run] = session_id(condition)]
    /\ run_pc' = [run_pc EXCEPT ![run] = "listening"]
    /\ UNCHANGED <<files, run_recorded, featVars, authVars, collVars>>

\* listener.join() returns: the recording held keystrokes, or none
StopListener(run) ==
    /\ run_pc[run] = "listening"
    /\ \E recorded \in BOOLEAN : run_recorded' = [run_recorded EXCEPT ![run] = recorded]
    /\ run_pc' = [run_pc EXCEPT ![run] = "stopped"]
    /\ UNCHANGED <<files, run_condition, run_session_id, featVars, authVars, collVars>>

\* save_data(): no file for a recording without keystrokes
SaveRun(run) ==
    /\ run_pc[run] = "stopped"
    /\ files' = IF run_recorded[run] THEN to_csv(run) ELSE files
    /\ run_pc' = [run_pc EXCEPT ![run] = "saved"]
    /\ UNCHANGED <<run_condition, run_session_id, run_recorded, featVars, authVars, collVars>>

NextRuns ==
    \/ \E run \in Runs : StartRun(run)
    \/ \E run \in Runs : StopListener(run)
    \/ \E run \in Runs : SaveRun(run)

SpecRuns == InitRuns /\ [][NextRuns]_vars

\* the runs that saved a session
SavedRuns == {r \in Runs : run_pc[r] = "saved" /\ run_recorded[r]}

\* C11: for any interleaving of runs, no two saved sessions of the same
\* participant and condition carry the same session_id, and the file of a
\* saved session is never overwritten by another run.
C11_SessionIdUnique ==
    /\ \A r1, r2 \in SavedRuns :
          (r1 # r2 /\ run_condition[r1] = run_condition[r2])
             => run_session_id[r1] # run_session_id[r2]
    /\ \A r \in SavedRuns :
          [condition |-> run_condition[r], session_id |-> run_session_id[r],
           writer |-> r] \in files

\* a step that records a keystroke pops a pending press of the recorded key
RecordsPendingPress ==
    \E key \in Keys :
        /\ press_times[key] # None
        /\ press_times'[key] = None
        /\ Len(keystrokes') = Len(keystrokes) + 1
        /\ SubSeq(keystrokes', 1, Len(keystrokes)) = keystrokes
        /\ keystrokes'[Len(keystrokes')].key_code = key
        /\ keystrokes'[Len(keystrokes')].t_down_ms = press_times[key]

\* C12: the k-th recorded keystroke has order_index k-1 (so the values are
\* unique and strictly increasing in recording order), the counter equals the
\* number of recorded keystrokes, and only the release of a key with a pending
\* press records a keystroke or moves the counter.
C12_OrderIndexCounts ==
    /\ [](/\ order_index = Len(keystrokes)
          /\ \A k \in 1..Len(keystrokes) : keystrokes[k].order_index = k - 1)
    /\ [][(keystrokes' # keystrokes \/ order_index' # order_index)
             => RecordsPendingPress]_vars

\* two keystrokes recorded, then Key.esc released without a recorded press
C12_Witness ==
    /\ cpc = "stopped"
    /\ Len(keystrokes) = 2
    /\ order_index = 2
    /\ \A k \in 1..Len(keystrokes) : keystrokes[k].key_code # "Key.esc"
====
